---- MODULE Spec2Model ----
(***************************************************************************)
(* Receive loops of the two I4 interrogator clients:                       *)
(*   "spectral"  src/src/read_data/read_spectral_data.c                    *)
(*   "peak"      src/unnamed/part_000 (read_peak_data.c)                   *)
(* Buffers are byte sequences (index 1 = offset 0); the packed structs are *)
(* read little-endian as on the x86 Windows target.  32-bit unsigned       *)
(* values are kept as 16-bit halves, int values as integers.               *)
(***************************************************************************)
EXTENDS Integers, Sequences, FiniteSets, TLC

VARIABLES prog, pc, sock, frames, buffer_header, buffer_payload,
          sweep_type, DO, DL, i, log, fx, err, wire, dev, force, short_reads

vars == <<prog, pc, sock, frames, buffer_header, buffer_payload,
          sweep_type, DO, DL, i, log, fx, err, wire, dev, force, short_reads>>

(* ---------------------------- bounds ----------------------------------- *)
MaxFrames == 2
MaxDL == 40
MaxShortReads == 1

(* ------------------------ program constants ---------------------------- *)
HEADER_SIZE == 16
ERROR_PAYLOAD_SIZE == 8
PEAK_PAYLOAD_SIZE == 8
TSPEAK_PAYLOAD_SIZE == 12
SPECTRAL_PAYLOAD_SIZE == 8
FLAG_SIZE == 8
SOCKET_ERROR == -1

(* -------------------------- byte helpers ------------------------------- *)
ZeroBuf(n) == [j \in 1..n |-> 0]

\* little-endian encoding of a 16-bit value
LE16(x) == <<x % 256, x \div 256>>

\* two's-complement encoding of a signed 16-bit value
LE16s(x) == LE16(IF x < 0 THEN x + 65536 ELSE x)

\* uint16_t field at byte offset off
U16(buf, off) == buf[off + 1] + 256 * buf[off + 2]

\* int16_t field at byte offset off
S16(buf, off) == IF U16(buf, off) >= 32768 THEN U16(buf, off) - 65536
                 ELSE U16(buf, off)

\* uint32_t field at byte offset off, as <<low half, high half>>
U32(buf, off) == <<U16(buf, off), U16(buf, off + 2)>>

\* uint32_t converted to int (wraps modulo 2^32 on the target compilers)
ToInt(w) == IF w[2] >= 32768 THEN (w[2] - 65536) * 65536 + w[1]
            ELSE w[2] * 65536 + w[1]

\* C integer division by b > 0: truncation toward zero (floor for a >= 0,
\* ceiling for a < 0)
CDiv(a, b) == IF a >= 0 THEN a \div b ELSE (a + (b - 1)) \div b

(* ----------------------------- recv ------------------------------------ *)
\* 1 for a recv of n bytes that returned fewer bytes than asked for
ShortRead(got, n) == IF 0 < got /\ got < n THEN 1 ELSE 0

\* byte counts a recv of n bytes may deliver short: every count from 1 to
\* n - 1
ShortSizes(n) == 1..(n - 1)

\* results of recv(hSocket, buf, n, 0): after the end of the stream 0; after
\* an error (a reset connection) the error again or the end of the stream
RecvOutcomes(n) ==
    IF sock = "closed" THEN {0}
    ELSE IF sock = "failed" THEN {SOCKET_ERROR, 0}
    ELSE {SOCKET_ERROR, 0} \cup ShortSizes(n) \cup {n}

\* the runs followed have at most MaxShortReads short recv calls
WithinMaxShortReads(got, n) ==
    short_reads + ShortRead(got, n) <= MaxShortReads

SockAfter(got) == IF got = 0 THEN "closed"
                  ELSE IF got = SOCKET_ERROR THEN "failed"
                  ELSE sock

\* recv stores the bytes it received at the start of buf, the rest is kept
RecvInto(buf, data, got) ==
    [j \in 1..Len(buf) |-> IF j <= got THEN data[j] ELSE buf[j]]

\* messages written after a payload / header / error / flag recv
RecvDiag(got, failmsg) ==
    IF got = SOCKET_ERROR THEN {failmsg}
    ELSE IF got = 0 THEN {"Client disconnected"}
    ELSE {}

HeaderDiag(got) ==
    RecvDiag(got, "Receiving failed")
      \cup (IF got # HEADER_SIZE THEN {"packet header size error"} ELSE {})

(* ------------------------- field extractors ---------------------------- *)
\* peak_data[0] is <<low half, high half>>
sensor_id(w0) == w0[1] % 256
\* a fiber id taken from bits 4-7
fiber_id_shift4(w0) == (w0[1] \div 16) % 16

fiber_id(w0) == (w0[1] \div 256) % 16
channel_id(w0) == (w0[1] \div 4096) % 16

\* a wavelength whose two words change places
wavelength_swapped(w0, w1) == LE16(w1[1]) \o LE16(w1[2]) \o LE16(32767) \o LE16(w0[2])

\* a wavelength that keeps the id bits of peak_data[0]
wavelength_unmasked(w0, w1) == LE16(w0[1]) \o LE16(w0[2]) \o LE16(w1[1]) \o LE16(w1[2])

\* the 8 bytes of the double returned by wavelength()
wavelength(w0, w1) == LE16(32767) \o LE16(w0[2]) \o LE16(w1[1]) \o LE16(w1[2])

(* ------------------------- 64-bit arithmetic --------------------------- *)
\* A 64-bit value is kept as four 16-bit limbs, lowest first.
U64(buf, off) == <<U16(buf, off), U16(buf, off + 2), U16(buf, off + 4), U16(buf, off + 6)>>

\* the divisor of header->timeStamp / 1000000000
NanosPerSecond == 1000000000

\* 2208988800, the seconds from 1900-01-01 to 1970-01-01
EpochOffset == <<32384, 33706, 0, 0>>

Bit64(w, k) == (w[(k \div 16) + 1] \div (2 ^ (k % 16))) % 2
SetBit64(q, k) == [q EXCEPT ![(k \div 16) + 1] = @ + 2 ^ (k % 16)]

\* unsigned w / 1000000000, bit by bit from bit k down
RECURSIVE UDivStep(_, _, _, _)
UDivStep(w, k, rem, q) ==
    IF k < 0 THEN q
    ELSE LET r2 == 2 * rem + Bit64(w, k)
         IN IF r2 >= NanosPerSecond
            THEN UDivStep(w, k - 1, r2 - NanosPerSecond, SetBit64(q, k))
            ELSE UDivStep(w, k - 1, r2, q)

UDiv64(w) == UDivStep(w, 63, 0, <<0, 0, 0, 0>>)

\* unsigned a - b modulo 2^64
USub64(a, b) ==
    LET d1 == a[1] - b[1]
        c1 == IF d1 < 0 THEN 1 ELSE 0
        d2 == a[2] - b[2] - c1
        c2 == IF d2 < 0 THEN 1 ELSE 0
        d3 == a[3] - b[3] - c2
        c3 == IF d3 < 0 THEN 1 ELSE 0
        d4 == a[4] - b[4] - c3
    IN <<IF d1 < 0 THEN d1 + 65536 ELSE d1,
         IF d2 < 0 THEN d2 + 65536 ELSE d2,
         IF d3 < 0 THEN d3 + 65536 ELSE d3,
         IF d4 < 0 THEN d4 + 65536 ELSE d4>>

\* the value of a 64-bit pattern stored in a time_t (signed, 64 bits): its
\* sign and its magnitude
ToTimeT(r) ==
    IF r[4] >= 32768 THEN [neg |-> TRUE, mag |-> USub64(<<0, 0, 0, 0>>, r)]
    ELSE [neg |-> FALSE, mag |-> r]

\* a unix time kept in an unsigned 64-bit variable
unix_time_unsigned(buf) ==
    [neg |-> FALSE, mag |-> USub64(UDiv64(U64(buf, 8)), EpochOffset)]

\* time_t unix_time = (header->timeStamp / 1000000000) - 2208988800;
unix_time(buf) == ToTimeT(USub64(UDiv64(U64(buf, 8)), EpochOffset))

(* ------------------------ double arithmetic ---------------------------- *)
\* A double is given by the 8 bytes of its IEEE 754 pattern, low byte first.
\* The result of an operation is kept as a class and a sign: "nan", "inf",
\* "zero", "nonzero" (a number that is not zero: finite, or infinite after
\* an overflow) and "other" (a value that is not followed further).
DExp(d) == (U16(d, 6) \div 16) % 2048
DMantZero(d) == U16(d, 6) % 16 = 0 /\ U16(d, 4) = 0 /\ U16(d, 2) = 0 /\ U16(d, 0) = 0
DNeg(d) == U16(d, 6) >= 32768
DIsNaN(d) == DExp(d) = 2047 /\ ~DMantZero(d)
DIsInf(d) == DExp(d) = 2047 /\ DMantZero(d)
DIsZero(d) == DExp(d) = 0 /\ DMantZero(d)

\* a == b on doubles
DEq(a, b) == ~DIsNaN(a) /\ ~DIsNaN(b) /\ (a = b \/ (DIsZero(a) /\ DIsZero(b)))

DVal(cls, neg) == [cls |-> cls, neg |-> neg]

DClass(d) ==
    IF DIsNaN(d) THEN DVal("nan", FALSE)
    ELSE IF DIsInf(d) THEN DVal("inf", DNeg(d))
    ELSE IF DIsZero(d) THEN DVal("zero", DNeg(d))
    ELSE DVal("nonzero", DNeg(d))

\* a - b
DSub(a, b) ==
    IF DIsNaN(a) \/ DIsNaN(b) THEN DVal("nan", FALSE)
    ELSE IF DIsInf(a) /\ DIsInf(b) THEN
         (IF DNeg(a) = DNeg(b) THEN DVal("nan", FALSE) ELSE DVal("inf", DNeg(a)))
    ELSE IF DIsInf(a) THEN DVal("inf", DNeg(a))
    ELSE IF DIsInf(b) THEN DVal("inf", ~DNeg(b))
    ELSE IF DIsZero(a) /\ DIsZero(b) THEN DVal("zero", DNeg(a) /\ ~DNeg(b))
    ELSE IF a = b THEN DVal("zero", FALSE)
    ELSE DVal("other", FALSE)

\* x / b for a result x and a double b
DDiv(x, b) ==
    IF x.cls = "nan" \/ DIsNaN(b) THEN DVal("nan", FALSE)
    ELSE IF x.cls = "zero" THEN
         (IF DIsZero(b) THEN DVal("nan", FALSE) ELSE DVal("zero", x.neg # DNeg(b)))
    ELSE IF x.cls = "inf" THEN
         (IF DIsInf(b) THEN DVal("nan", FALSE) ELSE DVal("inf", x.neg # DNeg(b)))
    ELSE DVal("other", FALSE)

\* x / c and x * c for a finite constant c > 0
DScale(x) == IF x.cls = "nonzero" THEN DVal("other", FALSE) ELSE x

\* a calibration that divides the present wavelength by the initial one
calibrationForce_noDelta(initial_wavelength, present_wavelength) ==
    LET delta_wavelength == DClass(present_wavelength)
        strain == DScale(DDiv(delta_wavelength, initial_wavelength))
    IN DScale(DScale(strain))

\* *force after calibrationForce(&initial_wavelength, &wavelength, &force)
calibrationForce(initial_wavelength, present_wavelength) ==
    LET delta_wavelength == DSub(present_wavelength, initial_wavelength)
        strain == DScale(DDiv(delta_wavelength, initial_wavelength))
    IN DScale(DScale(strain))

(* -------------------------- calibration table -------------------------- *)
\* double FBGs_info[4][1][2]; // channel - fibre - sensor
FBG_CHANNELS == 4
FBG_FIBERS == 1
FBG_SENSORS == 2

\* CHANNEL_n_SENSOR_1_WAVELENGTH / 1e9 = 1534.63e-9 (0x3EB9BF2F87826CE4) and
\* CHANNEL_n_SENSOR_2_WAVELENGTH / 1e9 = 1549.65e-9 (0x3EB9FFB231A8E002)
SENSOR_1_WAVELENGTH == LE16(27876) \o LE16(34690) \o LE16(48943) \o LE16(16057)
SENSOR_2_WAVELENGTH == LE16(57346) \o LE16(12712) \o LE16(65458) \o LE16(16057)

\* the table after lines 102-109
FBGs_info ==
    [channel \in 0..(FBG_CHANNELS - 1) |->
      [fiber \in 0..(FBG_FIBERS - 1) |->
        [sensor \in 0..(FBG_SENSORS - 1) |->
          IF sensor = 0 THEN SENSOR_1_WAVELENGTH ELSE SENSOR_2_WAVELENGTH]]]

\* FBGs_info[channel][fiber][sensor] is an element of the table
FBGs_info_InBounds(channel, fiber, sensor) ==
    /\ channel \in 0..(FBG_CHANNELS - 1)
    /\ fiber \in 0..(FBG_FIBERS - 1)
    /\ sensor \in 0..(FBG_SENSORS - 1)

\* double initial_wavelength = FBGs_info[channel][fiber][sensor]: inside the
\* table its element (known, d); outside the table (undefined behaviour)
\* the read faults or yields whatever 8 bytes lie there (not known)
FBGs_info_Read(channel, fiber, sensor) ==
    IF FBGs_info_InBounds(channel, fiber, sensor)
    THEN {[fault |-> FALSE, known |-> TRUE,
           d |-> FBGs_info[channel][fiber][sensor]]}
    ELSE {[fault |-> f, known |-> FALSE, d |-> ZeroBuf(8)] : f \in BOOLEAN}

\* force after the lookup o and calibrationForce(&initial_wavelength,
\* &wavelength, &force): not followed when the initial wavelength is not
\* known, left alone when the lookup faults
ForceAfter(o, present_wavelength, old) ==
    IF o.fault THEN old
    ELSE IF o.known THEN calibrationForce(o.d, present_wavelength)
    ELSE DVal("other", FALSE)


(* ----------------------------- decoders -------------------------------- *)
\* a header decoder whose packet counter mask is 0xFF
processPacket_Header_mask8(buf) ==
    LET info == U16(buf, 0)
    IN [packetCounter |-> info % 256,
        sweepingType  |-> (info \div 4096) % 8,
        triggerMode   |-> info \div 32768,
        dataOffset    |-> U16(buf, 2),
        dataLength    |-> U32(buf, 4),
        sweep_type    |-> (info \div 4096) % 8,
        DO            |-> U16(buf, 2),
        DL            |-> ToInt(U32(buf, 4))]

processPacket_Header(buf) ==
    LET info == U16(buf, 0)
    IN [packetCounter |-> info % 4096,
        sweepingType  |-> (info \div 4096) % 8,
        triggerMode   |-> info \div 32768,
        dataOffset    |-> U16(buf, 2),
        dataLength    |-> U32(buf, 4),
        sweep_type    |-> (info \div 4096) % 8,
        DO            |-> U16(buf, 2),
        DL            |-> ToInt(U32(buf, 4))]

processPacket_Payload(buf) ==
    LET w0 == U32(buf, 0)
        w1 == U32(buf, 4)
    IN [sensor |-> sensor_id(w0), fiber |-> fiber_id(w0),
        channel |-> channel_id(w0), wavelength |-> wavelength(w0, w1)]

processPacket_tsPayload(buf) ==
    LET w0 == U32(buf, 0)
        w1 == U32(buf, 4)
    IN [sensor |-> sensor_id(w0), fiber |-> fiber_id(w0),
        channel |-> channel_id(w0), wavelength |-> wavelength(w0, w1)]

processPacket_spectralPayload_info(buf) ==
    LET w0 == U32(buf, 0)
    IN [sensor |-> sensor_id(w0), fiber |-> fiber_id(w0),
        channel |-> channel_id(w0), points |-> U32(buf, 4)]

processPacket_spectralPayload(buf) ==
    <<S16(buf, 0), S16(buf, 2), S16(buf, 4), S16(buf, 6)>>

\* an error decoder that takes the ids from the error id word
processPacket_errorPayload_fromId(buf) ==
    LET id   == U32(buf, 0)
        desc == U32(buf, 0)
    IN IF id = <<500, 0>> THEN
          [type |-> "Missing Peak", sensor |-> sensor_id(desc),
           fiber |-> fiber_id(desc), channel |-> channel_id(desc)]
       ELSE IF id = <<501, 0>> THEN
          [type |-> "Multiple Peaks", sensor |-> sensor_id(desc),
           fiber |-> fiber_id(desc), channel |-> channel_id(desc)]
       ELSE [type |-> "Internal Error"]

processPacket_errorPayload(buf) ==
    LET id   == U32(buf, 0)
        desc == U32(buf, 4)
    IN IF id = <<500, 0>> THEN
          [type |-> "Missing Peak", sensor |-> sensor_id(desc),
           fiber |-> fiber_id(desc), channel |-> channel_id(desc)]
       ELSE IF id = <<501, 0>> THEN
          [type |-> "Multiple Peaks", sensor |-> sensor_id(desc),
           fiber |-> fiber_id(desc), channel |-> channel_id(desc)]
       ELSE [type |-> "Internal Error"]

(* --------------------------- wire contents ----------------------------- *)
\* header fields the device may put on the wire
WireInfos == {1 + 4096 * st : st \in {0, 1, 2, 3}}
WireOffsets == {16, 24}
\* a length of 2^31 and more; its third byte is 0, so that a header of which
\* 7 bytes arrive does not announce 2^16 elements and more
BigLengths == {<<0, 32768>>}
\* lengths of no, one, two and three elements and one that is not a
\* multiple of 8; a spectral frame (sweeping type 1) may also have MaxDL
\* bytes
WireLengths(info) ==
    {<<d, 0>> : d \in {0, 8, 12, 24}
                      \cup (IF info = 1 + 4096 THEN {MaxDL} ELSE {})}
      \cup BigLengths

EncHeader(info, off, len) ==
    LE16(info) \o LE16(off) \o LE16(len[1]) \o LE16(len[2]) \o ZeroBuf(8)

Headers ==
    UNION {{EncHeader(info, off, len) :
              off \in WireOffsets, len \in WireLengths(info)} : info \in WireInfos}

PeakPayloads ==
    {LE16(4660) \o LE16(0) \o LE16(0) \o LE16(16368),      \* 0x00001234 0x3FF00000
     LE16(4097) \o LE16(22136) \o LE16(1) \o LE16(16000)}

TsPayloads == {p \o LE16(7) \o LE16(0) : p \in PeakPayloads}

SpectralInfos == {LE16(4660) \o LE16(0) \o LE16(4) \o LE16(0)}

SpectralPayloads ==
    {LE16s(1) \o LE16s(-2) \o LE16s(3) \o LE16s(-4),
     LE16s(-32768) \o LE16s(32767) \o LE16s(0) \o LE16s(-1)}

ErrorPayloads ==
    {LE16(id) \o LE16(0) \o LE16(4660) \o LE16(0) : id \in {500, 501, 999}}

Flags == {LE16(9) \o LE16(0) \o ZeroBuf(4)}

(* ------------------------------ the device ----------------------------- *)
\* what the device sends next: a header, the error payload of a frame whose
\* dataOffset is beyond the header, data or the flag; with it the sweeping
\* type of the frame it is sending, the data bytes of the frame that are
\* still to come (32 bits, as halves) and whether no data was sent yet
DevAt(at, st, left, first) ==
    [at |-> at, st |-> st, left |-> left, first |-> first]

DevHeader == DevAt("header", 0, <<0, 0>>, TRUE)

\* w - k for a 32-bit w >= k and a small k
Sub32(w, k) == IF w[1] >= k THEN <<w[1] - k, w[2]>>
               ELSE <<w[1] + 65536 - k, w[2] - 1>>

\* the part of element e that the data still to come has room for
Fit(e, left) == IF left[2] = 0 /\ left[1] < Len(e) THEN SubSeq(e, 1, left[1])
                ELSE e

\* data elements of a frame of sweeping type st: spectral frames begin with
\* the spectral info, frames with timestamps have 12-byte elements, all
\* others 8-byte elements
DataElements(st, first) ==
    IF st = 1 THEN (IF first THEN SpectralInfos ELSE SpectralPayloads)
    ELSE IF st = 2 THEN TsPayloads
    ELSE PeakPayloads

\* data while there is some left, then the flag
DataOrFlag(st, left, first) ==
    IF left = <<0, 0>> THEN DevAt("flag", 0, <<0, 0>>, TRUE)
    ELSE DevAt("data", st, left, first)

\* the next bytes the device puts on the stream and what it sends after
\* them. A frame is its header, dataOffset - 16 bytes of error payload,
\* dataLength bytes of data and the flag.
DeviceSends(dv) ==
    IF dv.at = "header" THEN
        {[bytes |-> h,
          dev   |-> LET st  == (U16(h, 0) \div 4096) % 8
                        len == U32(h, 4)
                    IN IF U16(h, 2) > HEADER_SIZE
                       THEN DevAt("error", st, len, TRUE)
                       ELSE DataOrFlag(st, len, TRUE)] : h \in Headers}
    ELSE IF dv.at = "error" THEN
        {[bytes |-> e, dev |-> DataOrFlag(dv.st, dv.left, TRUE)] :
           e \in ErrorPayloads}
    ELSE IF dv.at = "data" THEN
        {[bytes |-> Fit(e, dv.left),
          dev   |-> DataOrFlag(dv.st, Sub32(dv.left, Len(Fit(e, dv.left))), FALSE)] :
           e \in DataElements(dv.st, dv.first)}
    ELSE {[bytes |-> f, dev |-> DevHeader] : f \in Flags}

\* the stream once it holds n bytes and more: w, the bytes sent and not yet
\* received, followed by what the device sends after them
RECURSIVE Stream(_, _, _)
Stream(w, dv, n) ==
    IF Len(w) >= n THEN {[wire |-> w, dev |-> dv]}
    ELSE UNION {Stream(w \o c.bytes, c.dev, n) : c \in DeviceSends(dv)}

\* what a recv that returns got takes from the TCP stream (data), what stays
\* in it (rest) and where the device is then: the next got bytes of the
\* stream, whatever the program is about to read. After the end of the
\* stream or an error no byte is delivered any more.
Delivered(got) ==
    IF got <= 0 THEN {[data |-> <<>>, rest |-> <<>>, dev |-> dev]}
    ELSE {[data |-> SubSeq(t.wire, 1, got),
           rest |-> SubSeq(t.wire, got + 1, Len(t.wire)),
           dev  |-> t.dev] : t \in Stream(wire, dev, got)}

(* ---------------------------- control flow ----------------------------- *)
\* a loop that tests i <= count
LoopPcInclusive(first, count, body) == IF first <= count THEN body ELSE "flag"

\* for (int i = first; i < count; i++): stay in the loop body or fall out
\* of the payload phase to the flag recv
LoopPc(first, count, body) == IF first < count THEN body ELSE "flag"

\* first index of the spectral sample loop
SpectralFirstIndex == 1

\* dispatch on DO / sweep_type after processPacket_Header
AfterHeader(p, st, do, dl) ==
    IF do = 16 THEN
        IF st = 0 THEN LoopPc(0, CDiv(dl, PEAK_PAYLOAD_SIZE), "peak")
        ELSE IF st = 1 /\ p = "spectral" THEN "spectral_info"
        ELSE IF st = 2 THEN LoopPc(0, CDiv(dl, TSPEAK_PAYLOAD_SIZE), "tspeak")
        ELSE "flag"
    ELSE "error"

\* an error branch of the peak program that skips the flag recv
AfterErrorNoFlag(p, st, dl) ==
    IF p = "spectral" THEN "done"
    ELSE IF st = 0 THEN LoopPc(0, CDiv(dl, PEAK_PAYLOAD_SIZE), "err_peak")
    ELSE IF st = 2 THEN LoopPc(0, CDiv(dl, TSPEAK_PAYLOAD_SIZE), "err_tspeak")
    ELSE "loop"

\* an error branch whose payload loops are chosen the wrong way round
AfterErrorSwapped(p, st, dl) ==
    IF p = "spectral" THEN "done"
    ELSE IF st = 2 THEN LoopPc(0, CDiv(dl, PEAK_PAYLOAD_SIZE), "err_peak")
    ELSE IF st = 0 THEN LoopPc(0, CDiv(dl, TSPEAK_PAYLOAD_SIZE), "err_tspeak")
    ELSE "flag"

\* an error branch without the break of the spectral program
AfterErrorNoBreak(p, st, dl) ==
    IF st = 0 THEN LoopPc(0, CDiv(dl, PEAK_PAYLOAD_SIZE), "err_peak")
    ELSE IF st = 2 THEN LoopPc(0, CDiv(dl, TSPEAK_PAYLOAD_SIZE), "err_tspeak")
    ELSE "flag"

\* what follows processPacket_errorPayload
AfterError(p, st, dl) ==
    IF p = "spectral" THEN "done"
    ELSE IF st = 0 THEN LoopPc(0, CDiv(dl, PEAK_PAYLOAD_SIZE), "err_peak")
    ELSE IF st = 2 THEN LoopPc(0, CDiv(dl, TSPEAK_PAYLOAD_SIZE), "err_tspeak")
    ELSE "flag"

\* a flag recv that is followed by another flag recv in the peak program
AfterFlagAgain(p) == IF p = "spectral" THEN "done" ELSE "flag"

\* what follows the flag recv
AfterFlag(p) == IF p = "spectral" THEN "done" ELSE "loop"

\* size of the buffer_payload array declared in the branch entered
PayloadBufSize(loc) ==
    IF loc \in {"tspeak", "err_tspeak"} THEN TSPEAK_PAYLOAD_SIZE
    ELSE PEAK_PAYLOAD_SIZE

\* one recv and what the program did with its buffer: kind of read, bytes
\* requested, recv's result, the records decoded from the buffer, and the
\* diagnostics printed
Event(kind, req, got, rec, diag) ==
    [kind |-> kind, req |-> req, got |-> got, rec |-> rec, diag |-> diag]

(* ------------------------------- Init ---------------------------------- *)
Init ==
    /\ prog \in {"spectral", "peak"}
    /\ pc = "WSAStartup"
    /\ sock = "none"
    /\ err = ""
    /\ frames = 0
    /\ buffer_header = ZeroBuf(HEADER_SIZE)
    /\ buffer_payload = ZeroBuf(PEAK_PAYLOAD_SIZE)
    /\ sweep_type = 0
    /\ DO = 0
    /\ DL = 0
    /\ i = 0
    /\ log = <<>>
    /\ fx = [op |-> "none"]
    /\ wire = <<>>
    /\ dev = DevHeader
    /\ short_reads = 0
    /\ force = DVal("zero", FALSE)

(* ------------------------------ actions -------------------------------- *)
\* everything but the position, the socket and the message on stderr
SetupFrame == UNCHANGED <<prog, frames, buffer_header, buffer_payload,
                          sweep_type, DO, DL, i, log, fx, wire, dev,
                          force, short_reads>>

\* if (WSAStartup(MAKEWORD(2, 2), &wsaData) != 0) { ...; return 1; }
WSAStartup ==
    /\ pc = "WSAStartup"
    /\ \E r \in {0, 10091} :
         IF r # 0
         THEN pc' = "return_1" /\ err' = "WSAStartup failed." /\ sock' = sock
         ELSE pc' = "socket" /\ UNCHANGED <<err, sock>>
    /\ SetupFrame

\* hSocket = socket(AF_INET, SOCK_STREAM, 0); INVALID_SOCKET: return 1
socket ==
    /\ pc = "socket"
    /\ \E r \in {"INVALID_SOCKET", "created"} :
         IF r = "INVALID_SOCKET"
         THEN pc' = "return_1" /\ err' = "Socket creation failed." /\ sock' = sock
         ELSE pc' = "inet_pton" /\ sock' = "created" /\ err' = err
    /\ SetupFrame

\* if (inet_pton(AF_INET, SERVER_IP, &tAddr.sin_addr) <= 0) { ...; return 1; }
inet_pton ==
    /\ pc = "inet_pton"
    /\ \E r \in {-1, 0, 1} :
         IF r <= 0
         THEN pc' = "return_1" /\ err' = "inet_pton failed." /\ sock' = "none"
         ELSE pc' = "connect" /\ UNCHANGED <<err, sock>>
    /\ SetupFrame

\* if (connect(hSocket, ...) == SOCKET_ERROR) { ...; return 1; }
connect ==
    /\ pc = "connect"
    /\ \E r \in {0, SOCKET_ERROR} :
         IF r = SOCKET_ERROR
         THEN pc' = "return_1" /\ err' = "Connection failed." /\ sock' = "none"
         ELSE pc' = "header" /\ sock' = "open" /\ err' = err
    /\ SetupFrame

\* 1. Receiving header packet, processPacket_Header, dispatch
RecvHeader ==
    /\ pc = "header"
    /\ frames < MaxFrames
    /\ \E got \in {g \in RecvOutcomes(HEADER_SIZE) : WithinMaxShortReads(g, HEADER_SIZE)} :
       \E d \in Delivered(got) :
         LET buf == RecvInto(ZeroBuf(HEADER_SIZE), d.data, got)
             h   == processPacket_Header(buf)
             loc == AfterHeader(prog, h.sweep_type, h.DO, h.DL)
         IN /\ buffer_header' = buf
            /\ wire' = d.rest /\ dev' = d.dev
            /\ short_reads' = short_reads + ShortRead(got, HEADER_SIZE)
            /\ force' = DVal("zero", FALSE)
            /\ sweep_type' = h.sweep_type
            /\ DO' = h.DO
            /\ DL' = h.DL
            /\ sock' = SockAfter(got)
            /\ pc' = loc
            /\ i' = 0
            /\ buffer_payload' = ZeroBuf(PayloadBufSize(loc))
            /\ log' = <<Event("header", HEADER_SIZE, got, <<h>>, HeaderDiag(got))>>
    /\ frames' = frames + 1
    /\ UNCHANGED <<err, prog, fx>>

\* the peak program after a payload is decoded: the lookup of the initial
\* wavelength and calibrationForce, then on to location next; a lookup that
\* faults ends the program. The spectral program has neither.
Calibrate(p, next) ==
    IF prog = "peak"
    THEN \E o \in FBGs_info_Read(p.channel, p.fiber, p.sensor) :
           /\ force' = ForceAfter(o, p.wavelength, force)
           /\ pc' = IF o.fault THEN "fault" ELSE next
    ELSE force' = force /\ pc' = next

\* one iteration of a peak payload loop at location loc, leaving to exit
PeakStep(loc) ==
    /\ pc = loc
    /\ i * PEAK_PAYLOAD_SIZE < MaxDL      \* longer loops are not followed
    /\ \E got \in {g \in RecvOutcomes(PEAK_PAYLOAD_SIZE) : WithinMaxShortReads(g, PEAK_PAYLOAD_SIZE)} :
       \E d \in Delivered(got) :
         LET buf == RecvInto(buffer_payload, d.data, got)
             p   == processPacket_Payload(buf)
         IN /\ buffer_payload' = buf
            /\ wire' = d.rest /\ dev' = d.dev
            /\ short_reads' = short_reads + ShortRead(got, PEAK_PAYLOAD_SIZE)
            /\ sock' = SockAfter(got)
            /\ log' = Append(log, Event("peak", PEAK_PAYLOAD_SIZE, got, <<p>>,
                                        RecvDiag(got, "Receiving failed")))
            /\ Calibrate(p, LoopPc(i + 1, CDiv(DL, PEAK_PAYLOAD_SIZE), loc))
    /\ i' = i + 1
    /\ UNCHANGED <<err, prog, frames, buffer_header, sweep_type, DO, DL, fx>>

\* one iteration of a time-stamped peak payload loop at location loc
TsStep(loc) ==
    /\ pc = loc
    /\ i * TSPEAK_PAYLOAD_SIZE < MaxDL    \* longer loops are not followed
    /\ \E got \in {g \in RecvOutcomes(TSPEAK_PAYLOAD_SIZE) : WithinMaxShortReads(g, TSPEAK_PAYLOAD_SIZE)} :
       \E d \in Delivered(got) :
         LET buf == RecvInto(buffer_payload, d.data, got)
             p   == processPacket_tsPayload(buf)
         IN /\ buffer_payload' = buf
            /\ wire' = d.rest /\ dev' = d.dev
            /\ short_reads' = short_reads + ShortRead(got, TSPEAK_PAYLOAD_SIZE)
            /\ sock' = SockAfter(got)
            /\ log' = Append(log, Event("tspeak", TSPEAK_PAYLOAD_SIZE, got, <<p>>,
                                        RecvDiag(got, "Receiving failed")))
            /\ Calibrate(p, LoopPc(i + 1, CDiv(DL, TSPEAK_PAYLOAD_SIZE), loc))
    /\ i' = i + 1
    /\ UNCHANGED <<err, prog, frames, buffer_header, sweep_type, DO, DL, fx>>

\* 2. normal branch, sweep_type == 0
RecvPeakPayload == PeakStep("peak")

\* 2. normal branch, sweep_type == 2
RecvTsPayload == TsStep("tspeak")

\* 2. normal branch, sweep_type == 1 (spectral program): spectral info
RecvSpectralInfo ==
    /\ pc = "spectral_info"
    /\ \E got \in {g \in RecvOutcomes(SPECTRAL_PAYLOAD_SIZE) : WithinMaxShortReads(g, SPECTRAL_PAYLOAD_SIZE)} :
       \E d \in Delivered(got) :
         LET buf == RecvInto(buffer_payload, d.data, got)
         IN /\ buffer_payload' = buf
            /\ wire' = d.rest /\ dev' = d.dev
            /\ short_reads' = short_reads + ShortRead(got, SPECTRAL_PAYLOAD_SIZE)
            /\ sock' = SockAfter(got)
            /\ log' = Append(log, Event("spectral_info", SPECTRAL_PAYLOAD_SIZE, got,
                                        <<processPacket_spectralPayload_info(buf)>>,
                                        RecvDiag(got, "Receiving failed")))
    /\ i' = SpectralFirstIndex
    /\ pc' = LoopPc(SpectralFirstIndex, CDiv(DL, SPECTRAL_PAYLOAD_SIZE), "spectral")
    /\ UNCHANGED <<err, prog, frames, buffer_header, sweep_type, DO, DL, fx, force>>

\* 2. normal branch, sweep_type == 1 (spectral program): spectral data loop
RecvSpectralPayload ==
    /\ pc = "spectral"
    /\ i * SPECTRAL_PAYLOAD_SIZE < MaxDL  \* longer loops are not followed
    /\ \E got \in {g \in RecvOutcomes(SPECTRAL_PAYLOAD_SIZE) : WithinMaxShortReads(g, SPECTRAL_PAYLOAD_SIZE)} :
       \E d \in Delivered(got) :
         LET buf == RecvInto(buffer_payload, d.data, got)
         IN /\ buffer_payload' = buf
            /\ wire' = d.rest /\ dev' = d.dev
            /\ short_reads' = short_reads + ShortRead(got, SPECTRAL_PAYLOAD_SIZE)
            /\ sock' = SockAfter(got)
            /\ log' = Append(log, Event("spectral", SPECTRAL_PAYLOAD_SIZE, got,
                                        <<processPacket_spectralPayload(buf)>>,
                                        RecvDiag(got, "Receiving failed")))
    /\ i' = i + 1
    /\ pc' = LoopPc(i + 1, CDiv(DL, SPECTRAL_PAYLOAD_SIZE), "spectral")
    /\ UNCHANGED <<err, prog, frames, buffer_header, sweep_type, DO, DL, fx, force>>

\* 2. error branch: one error payload, then break (spectral) or the
\*    payload loops of the error branch (peak)
RecvErrorPayload ==
    /\ pc = "error"
    /\ \E got \in {g \in RecvOutcomes(ERROR_PAYLOAD_SIZE) : WithinMaxShortReads(g, ERROR_PAYLOAD_SIZE)} :
       \E d \in Delivered(got) :
         LET buf == RecvInto(ZeroBuf(ERROR_PAYLOAD_SIZE), d.data, got)
             loc == AfterError(prog, sweep_type, DL)
         IN /\ sock' = SockAfter(got)
            /\ wire' = d.rest /\ dev' = d.dev
            /\ short_reads' = short_reads + ShortRead(got, ERROR_PAYLOAD_SIZE)
            /\ pc' = loc
            /\ buffer_payload' = ZeroBuf(PayloadBufSize(loc))
            /\ log' = Append(log, Event("error", ERROR_PAYLOAD_SIZE, got,
                                        <<processPacket_errorPayload(buf)>>,
                                        RecvDiag(got, "error receiving failed")))
    /\ i' = 0
    /\ UNCHANGED <<err, prog, frames, buffer_header, sweep_type, DO, DL, fx, force>>

\* 2. error branch of the peak program, sweep_type == 0
RecvErrPeakPayload == PeakStep("err_peak")

\* 2. error branch of the peak program, sweep_type == 2
RecvErrTsPayload == TsStep("err_tspeak")

\* 3. Receiving flag packet, then break (spectral) or next iteration (peak)
RecvFlag ==
    /\ pc = "flag"
    /\ \E got \in {g \in RecvOutcomes(FLAG_SIZE) : WithinMaxShortReads(g, FLAG_SIZE)} :
       \E d \in Delivered(got) :
         /\ sock' = SockAfter(got)
         /\ wire' = d.rest /\ dev' = d.dev
         /\ short_reads' = short_reads + ShortRead(got, FLAG_SIZE)
         /\ log' = Append(log, Event("flag", FLAG_SIZE, got, <<>>,
                                     RecvDiag(got, "flag receiving failed")))
    /\ pc' = AfterFlag(prog)
    /\ UNCHANGED <<err, prog, frames, buffer_header, buffer_payload,
                   sweep_type, DO, DL, i, fx, force>>

\* back edge of while (1) in the peak program: the per-iteration buffers
\* are initialised again and the record of the finished frame is dropped
NextIteration ==
    /\ pc = "loop"
    /\ pc' = "header"
    /\ buffer_header' = ZeroBuf(HEADER_SIZE)
    /\ buffer_payload' = ZeroBuf(PEAK_PAYLOAD_SIZE)
    /\ i' = 0
    /\ log' = <<>>
    /\ UNCHANGED <<err, prog, sock, frames, sweep_type, DO, DL, fx, wire, dev, force,
                   short_reads>>

Next ==
    \/ WSAStartup
    \/ socket
    \/ inet_pton
    \/ connect
    \/ RecvHeader
    \/ RecvPeakPayload
    \/ RecvTsPayload
    \/ RecvSpectralInfo
    \/ RecvSpectralPayload
    \/ RecvErrorPayload
    \/ RecvErrPeakPayload
    \/ RecvErrTsPayload
    \/ RecvFlag
    \/ NextIteration

Spec == Init /\ [][Next]_vars

(* ------------------- the decoding functions on their own ---------------- *)
\* 16-bit halves of the 32-bit words the functions are applied to
LowHalves == 0..65535
HighHalves == {0, 1, 32768, 43981, 65535}
FewHalves == {0, 1, 500, 4660, 32767, 32768, 65535}

\* no frame is being received; fx holds the one function application made
InitFn ==
    /\ err = ""
    /\ prog = "peak"
    /\ pc = "fn"
    /\ sock = "open"
    /\ frames = 0
    /\ buffer_header = ZeroBuf(HEADER_SIZE)
    /\ buffer_payload = ZeroBuf(PEAK_PAYLOAD_SIZE)
    /\ sweep_type = 0
    /\ DO = 0
    /\ DL = 0
    /\ i = 0
    /\ log = <<>>
    /\ fx = [op |-> "none"]
    /\ wire = <<>>
    /\ dev = DevHeader
    /\ short_reads = 0
    /\ force = DVal("zero", FALSE)

FnFrame == UNCHANGED <<err, prog, pc, sock, frames, buffer_header, buffer_payload,
                       sweep_type, DO, DL, i, log, wire, dev, force,
                       short_reads>>

\* a function is applied to inputs once
FnReady == pc = "fn" /\ fx.op = "none"

\* sensor_id, fiber_id, channel_id of a word
ApplyIds ==
    /\ FnReady
    /\ \E lo \in LowHalves, hi \in HighHalves :
         fx' = [op |-> "ids", w0 |-> <<lo, hi>>,
                sensor |-> sensor_id(<<lo, hi>>),
                fiber |-> fiber_id(<<lo, hi>>),
                channel |-> channel_id(<<lo, hi>>)]
    /\ FnFrame

\* second words of a peak payload
SecondWords == {<<a, b>> : a \in {0, 65535}, b \in {0, 16368, 49136, 32752, 65535}}

\* wavelength of two words that differ at most in their low halves
ApplyWavelengthPair ==
    /\ FnReady
    /\ \E lo1 \in FewHalves, lo2 \in FewHalves, hi \in HighHalves, w1 \in SecondWords :
         fx' = [op |-> "wavelength", w0a |-> <<lo1, hi>>, w0b |-> <<lo2, hi>>,
                w1 |-> w1,
                a |-> wavelength(<<lo1, hi>>, w1),
                b |-> wavelength(<<lo2, hi>>, w1)]
    /\ FnFrame

\* values of the three fields of header->info
PacketCounters == 0..4095
SweepingTypes == 0..7
TriggerModes == 0..1

\* processPacket_Header of a header whose info packs the three fields
ApplyHeader ==
    /\ FnReady
    /\ \E c \in PacketCounters, st \in SweepingTypes, t \in TriggerModes :
         fx' = [op |-> "header", counter |-> c, sweepType |-> st, trigger |-> t,
                h |-> processPacket_Header(
                        EncHeader(c + 4096 * st + 32768 * t, HEADER_SIZE,
                                  <<PEAK_PAYLOAD_SIZE, 0>>))]
    /\ FnFrame

\* error ids and description words of an error payload
ErrorIds == {<<lo, hi>> : lo \in {0, 499, 500, 501, 502, 999, 65535},
                          hi \in {0, 1, 32768, 65535}}
ErrorDescriptions == {<<lo, hi>> : lo \in FewHalves, hi \in {0, 500, 65535}}

\* processPacket_errorPayload of an error payload
ApplyError ==
    /\ FnReady
    /\ \E id \in ErrorIds, desc \in ErrorDescriptions :
         fx' = [op |-> "error", id |-> id, desc |-> desc,
                r |-> processPacket_errorPayload(
                        LE16(id[1]) \o LE16(id[2]) \o LE16(desc[1]) \o LE16(desc[2]))]
    /\ FnFrame

\* wavelengths that processPacket_Payload can hand to calibrationForce
MeasuredWavelengths ==
    {wavelength(<<4660, hi>>, w1) : hi \in HighHalves, w1 \in SecondWords}

\* doubles that are not in the range of wavelength(): +0, -0, 1.0, +Inf,
\* -Inf and a NaN
SpecialDoubles ==
    {ZeroBuf(6) \o LE16(h) : h \in {0, 32768, 16368, 32752, 65520, 32760}}

\* doubles calibrationForce is applied to: the elements of the table,
\* wavelengths that processPacket_Payload hands over (subnormal numbers
\* among them), +0, -0, 1.0, +Inf, -Inf and a NaN
ForceInputs ==
    {SENSOR_1_WAVELENGTH, SENSOR_2_WAVELENGTH}
      \cup MeasuredWavelengths \cup SpecialDoubles

\* calibrationForce(&initial_wavelength, &wavelength, &force) for every pair
ApplyCalibrationForce ==
    /\ FnReady
    /\ \E ref \in ForceInputs, m \in ForceInputs :
         fx' = [op |-> "force", initial |-> ref, present |-> m,
                force |-> calibrationForce(ref, m)]
    /\ FnFrame

\* wavelength of one peak payload, every upper half of peak_data[0]
ApplyWavelength ==
    /\ FnReady
    /\ \E lo \in {4660, 65535}, hi \in LowHalves,
          w1 \in {<<0, 16368>>, <<43981, 65535>>} :
         fx' = [op |-> "wavelength1", w0 |-> <<lo, hi>>, w1 |-> w1,
                d |-> wavelength(<<lo, hi>>, w1)]
    /\ FnFrame

\* header time stamps: 0, 10^9 - 1, 10^9, 2208988800 * 10^9 - 1,
\* 2208988800 * 10^9, (2208988800 + 1700000000) * 10^9 + 123456789, 2^63,
\* 2^64 - 1, and others around them
TimeStamps ==
    {<<0, 0, 0, 0>>, <<51711, 15258, 0, 0>>, <<51712, 15258, 0, 0>>,
     <<65535, 8400, 59292, 7847>>, <<0, 8401, 59292, 7847>>,
     <<52501, 24150, 33946, 13887>>, <<0, 0, 0, 32768>>,
     <<65535, 65535, 65535, 65535>>}
    \cup {<<a, b, c, d>> : a \in {0, 65535}, b \in {0, 8400, 8401},
                           c \in {0, 59292, 65535},
                           d \in {0, 1, 7846, 7847, 7848, 32768, 65535}}

\* the unix time processPacket_Header of the spectral program derives from a
\* header with the time stamp ts
ApplyUnixTime ==
    /\ FnReady
    /\ \E ts \in TimeStamps :
         fx' = [op |-> "unix_time", ts |-> ts,
                t |-> unix_time(LE16(1) \o LE16(HEADER_SIZE)
                                  \o LE16(PEAK_PAYLOAD_SIZE) \o LE16(0)
                                  \o LE16(ts[1]) \o LE16(ts[2])
                                  \o LE16(ts[3]) \o LE16(ts[4]))]
    /\ FnFrame

NextFn ==
    \/ ApplyIds
    \/ ApplyWavelengthPair
    \/ ApplyHeader
    \/ ApplyError
    \/ ApplyCalibrationForce
    \/ ApplyWavelength
    \/ ApplyUnixTime

SpecFn == InitFn /\ [][NextFn]_vars

(* ----------------------------- type check ------------------------------ *)
TypeOK ==
    /\ prog \in {"spectral", "peak"}
    /\ pc \in {"WSAStartup", "socket", "inet_pton", "connect", "return_1",
               "header", "peak", "tspeak", "spectral_info", "spectral",
               "error", "err_peak", "err_tspeak", "flag", "loop", "done", "fault",
               "fn"}
    /\ sock \in {"none", "created", "open", "closed", "failed"}
    /\ err \in {"", "WSAStartup failed.", "Socket creation failed.",
                "inet_pton failed.", "Connection failed."}
    /\ frames \in 0..MaxFrames
    /\ sweep_type \in 0..7
    /\ DO \in 0..65535
    /\ i >= 0
    /\ Len(wire) < HEADER_SIZE /\ \A j \in 1..Len(wire) : wire[j] \in 0..255
    /\ dev.at \in {"header", "error", "data", "flag"} /\ dev.st \in 0..7
    /\ force.cls \in {"zero", "nan", "inf", "other"}
    /\ short_reads \in 0..MaxShortReads

(* ------------------------ reading the frame log ------------------------ *)
Last(q) == q[Len(q)]

KindCount(k) == Cardinality({j \in 1..Len(log) : log[j].kind = k})

NormalKinds == {"peak", "tspeak", "spectral_info", "spectral"}
PayloadKinds == NormalKinds \cup {"error"}

\* the header recv of the current frame delivered all 16 bytes
HeaderComplete == Len(log) >= 1 /\ log[1].got = HEADER_SIZE

\* every recv of the current frame so far delivered all the bytes asked for
AllReadsComplete == \A j \in 1..Len(log) : log[j].got = log[j].req

\* the dataLength field of the header in buffer_header, unsigned
WireLength == U32(buffer_header, 4)

\* floor(w / 8) and floor(w / 12) of an unsigned 32-bit w = <<low, high>>
FloorDiv8(w) == w[2] * 8192 + w[1] \div 8
FloorDiv12(w) == w[2] * 5461 + (4 * w[2] + w[1]) \div 12

\* the payload phase of the current frame is over
PayloadPhaseOver == Len(log) >= 1 /\ pc \in {"flag", "loop", "done"}

\* the current frame is over: the program stopped or is at the back edge
FrameOver == Len(log) >= 1 /\ pc \in {"loop", "done"}

\* positions in the log of the payload reads
PayloadPositions == {j \in 1..Len(log) : log[j].kind \in PayloadKinds}

(* ------------------------------- claims -------------------------------- *)

\* C1: after a complete header with dataOffset = 16 and sweep type 0 (2), the
\* payload phase consists of exactly floor(dataLength / 8) reads of 8 bytes
\* decoded as peaks (floor(dataLength / 12) reads of 12 bytes decoded as
\* time-stamped peaks), dataLength being the unsigned header field; stated
\* for frames all of whose reads delivered every byte.
C1_ElementCount ==
    (PayloadPhaseOver /\ AllReadsComplete /\ DO = 16 /\ sweep_type \in {0, 2}) =>
        /\ \A j \in PayloadPositions :
             /\ log[j].kind = (IF sweep_type = 0 THEN "peak" ELSE "tspeak")
             /\ log[j].req = (IF sweep_type = 0 THEN PEAK_PAYLOAD_SIZE
                              ELSE TSPEAK_PAYLOAD_SIZE)
        /\ Cardinality(PayloadPositions) =
             (IF sweep_type = 0 THEN FloorDiv8(WireLength)
              ELSE FloorDiv12(WireLength))

\* C2: in a frame whose header has dataOffset # 16 exactly one 8-byte error
\* payload is read and decoded, and no peak, spectral or time-stamped peak
\* element is read; stated for frames all of whose reads delivered every byte.
C2_ErrorFrameReadsOnlyError ==
    (AllReadsComplete /\ HeaderComplete /\ DO # 16) =>
        /\ \A j \in 1..Len(log) : log[j].kind \notin NormalKinds
        /\ pc # "error" =>
             /\ KindCount("error") = 1
             /\ log[2].kind = "error" /\ log[2].req = ERROR_PAYLOAD_SIZE
             /\ Len(log[2].rec) = 1

\* C3 (as stated): every finished frame (all its reads having delivered every
\* byte), of either branch, ends with exactly one read of 8 flag bytes, made before the
\* next header read or the stop.
C3_FlagAfterEitherBranch ==
    (FrameOver /\ AllReadsComplete) =>
        /\ KindCount("flag") = 1
        /\ Last(log).kind = "flag" /\ Last(log).req = FLAG_SIZE

\* C3 (amended): every finished frame ends with exactly one read of 8 flag
\* bytes, made after all payload reads and before the next header read or the
\* stop, except an error frame of the spectral program, which ends with the
\* error payload and has no flag read.
C3_FlagUnlessSpectralError ==
    /\ \A j \in 1..Len(log) : log[j].kind = "flag" => j = Len(log)
    /\ FrameOver =>
         IF prog = "spectral" /\ DO # 16
         THEN KindCount("flag") = 0 /\ Last(log).kind = "error"
         ELSE /\ KindCount("flag") = 1
              /\ Last(log).kind = "flag" /\ Last(log).req = FLAG_SIZE

\* an error frame of the peak program has been finished by its flag read
C3_Witness ==
    /\ pc = "loop" /\ prog = "peak" /\ DO # 16 /\ AllReadsComplete
    /\ KindCount("error") = 1
    /\ Last(log).kind = "flag"

\* C4: a read after the header that fails or returns no bytes aborts the
\* frame: nothing is decoded from its buffer and it is the last read of the
\* frame.
C4_FailedReadAbortsFrame ==
    HeaderComplete =>
        \A j \in 2..Len(log) :
            log[j].got <= 0 => (log[j].rec = <<>> /\ j = Len(log))

\* C5: a header read of fewer than 16 bytes derives no header fields and
\* enters neither the normal-payload nor the error-payload branch.
C5_ShortHeaderNotDecoded ==
    (Len(log) >= 1 /\ log[1].got < HEADER_SIZE) =>
        /\ log[1].rec = <<>>
        /\ Len(log) = 1
        /\ pc \notin {"peak", "tspeak", "spectral_info", "spectral", "error",
                      "err_peak", "err_tspeak"}

\* C6: once a read has returned 0 bytes (end of stream) no further read is
\* made: a read that returned 0 is the last read of the run.
C6_NoReadAfterEndOfStream ==
    /\ \A j \in 1..Len(log) : log[j].got = 0 => j = Len(log)
    /\ (sock = "closed" /\ log = <<>>) => frames = 0

\* C7: after the flag read of a frame, every read of the frame having
\* delivered all its bytes and the stream still being open, the program is
\* back at the loop head to read the next header.
C7_NextHeaderAfterFlag ==
    (Len(log) >= 1 /\ Last(log).kind = "flag" /\ sock = "open"
       /\ AllReadsComplete) => pc = "loop"

\* C8: a complete header whose sweep type is 3..7 makes the program report an
\* error for the frame and read no payload bytes for it.
C8_UnknownSweepTypeIsProtocolError ==
    (HeaderComplete /\ AllReadsComplete
       /\ log[1].rec[1].sweepingType \in 3..7) =>
        /\ log[1].diag # {}
        /\ PayloadPositions = {}

\* C9: in the spectral program, after a complete header with dataOffset = 16
\* and sweep type 1, floor(dataLength / 8) elements of 8 bytes are read in
\* all (here for dataLength < 2^31, dataLength < 8 included), the first
\* decoded as SpectralInfo and the others as SpectralSample.
C9_SpectralElementCount ==
    (prog = "spectral" /\ PayloadPhaseOver /\ AllReadsComplete
       /\ DO = 16 /\ sweep_type = 1 /\ WireLength[2] < 32768) =>
        /\ Cardinality(PayloadPositions) = FloorDiv8(WireLength)
        /\ \A j \in PayloadPositions :
             /\ log[j].req = SPECTRAL_PAYLOAD_SIZE
             /\ log[j].kind = (IF j = 2 THEN "spectral_info" ELSE "spectral")

\* a finished Spectral frame whose dataLength is 8 + 4k*8
SpectralFramingCase ==
    /\ prog = "spectral" /\ PayloadPhaseOver /\ HeaderComplete
    /\ DO = 16 /\ sweep_type = 1
    /\ WireLength[1] % 32 = 8

\* k of dataLength = 8 + 4k*8
SpectralFramingK == WireLength[2] * 2048 + (WireLength[1] - 8) \div 32

\* C10 (as stated): a Spectral frame of dataLength 8 + 4k*8 (here below
\* 2^31 and with every read delivering all its bytes) produces exactly 1 SpectralInfo and exactly k SpectralSample records,
\* the SpectralInfo first.
C10_SpectralFramingK ==
    (SpectralFramingCase /\ AllReadsComplete /\ WireLength[2] < 32768) =>
        /\ KindCount("spectral_info") = 1 /\ log[2].kind = "spectral_info"
        /\ KindCount("spectral") = SpectralFramingK

\* C10 (amended): a Spectral frame of dataLength 8 + 4k*8 below 2^31
\* produces exactly 1 SpectralInfo, first, and exactly 4k SpectralSample
\* records of four amplitudes each.
C10_SpectralFraming4K ==
    (SpectralFramingCase /\ WireLength[2] < 32768) =>
        /\ KindCount("spectral_info") = 1 /\ log[2].kind = "spectral_info"
        /\ Len(log[2].rec) = 1
        /\ KindCount("spectral") = 4 * SpectralFramingK
        /\ \A j \in 3..Len(log) :
             log[j].kind = "spectral" =>
                 (Len(log[j].rec) = 1 /\ Len(log[j].rec[1]) = 4)

\* a Spectral frame with k = 1 has been read to its end
C10_Witness ==
    /\ SpectralFramingCase /\ pc = "done" /\ AllReadsComplete
    /\ WireLength = <<40, 0>>
    /\ KindCount("spectral") = 4

\* the frame is an error frame and its error payload has been received
PastErrorPayload == Len(log) >= 2 /\ DO # 16

\* spectral program: the error payload is the last read of the run;
\* peak program: the run does not end with the error frame
C11_ErrorPathState ==
    PastErrorPayload =>
        /\ log[2].kind = "error"
        /\ IF prog = "spectral" THEN pc = "done" /\ Len(log) = 2
           ELSE pc # "done"

\* spectral program: nothing is read once the program has stopped;
\* peak program: an error frame ends at the back edge of the loop, and the
\* step after the back edge is the recv of the next header
C11_ErrorPathStep ==
    /\ pc = "done" => log' = log
    /\ (prog = "peak" /\ pc = "loop" /\ DO # 16) => pc' = "header"
    /\ (prog = "peak" /\ pc = "header" /\ frames >= 1 /\ DO # 16) =>
          (Len(log') = 1 /\ log'[1].kind = "header"
             /\ log'[1].req = HEADER_SIZE)

\* C11: on the error path the spectral program stops right after decoding
\* the error payload, with no further read, whereas the peak/force program
\* goes on looping and reads a next header after the error frame.
C11_ErrorPathDiffers == []C11_ErrorPathState /\ [][C11_ErrorPathStep]_vars

\* the peak/force program is at the header recv again after an error frame
C11_Witness ==
    /\ prog = "peak" /\ pc = "header" /\ frames = 1 /\ DO # 16
    /\ sock = "open"

\* the header step of a later frame of the peak/force program that turns
\* out to be an error frame in which normal-payload reads will be attempted,
\* its header received in full
ErrorHeaderStep ==
    /\ prog = "peak" /\ pc = "header" /\ frames >= 1
    /\ Len(log') = 1 /\ log'[1].got = HEADER_SIZE
    /\ DO' # 16
    /\ log'[1].rec[1].sweepingType \in {0, 2}
    /\ DL' >= TSPEAK_PAYLOAD_SIZE

\* C12 (as stated): in the peak/force program the sweep type in force for
\* the payload reads of an error frame is the stale one of the previous
\* frame's header, not the one decoded from the error frame's own header.
C12_StaleSweepType == [][ErrorHeaderStep => sweep_type' = sweep_type]_vars

\* number of elements a payload loop over elements of the given size reads
LoopCount(dl, size) == IF CDiv(dl, size) > 0 THEN CDiv(dl, size) ELSE 0

\* C12 (amended): in the peak/force program the normal-payload reads made
\* after an error payload use the sweep type and length decoded from the
\* header buffer of the error frame itself: DL/8 peak reads for sweep type 0,
\* DL/12 time-stamped peak reads for sweep type 2, none for other types.
C12_OwnSweepType ==
    (prog = "peak" /\ Len(log) >= 1 /\ DO # 16) =>
        LET own == processPacket_Header(buffer_header)
        IN /\ log[1].rec = <<own>>
           /\ \A j \in 1..Len(log) :
                /\ log[j].kind = "peak" =>
                     (own.sweepingType = 0 /\ j >= 3 /\ log[2].kind = "error")
                /\ log[j].kind = "tspeak" =>
                     (own.sweepingType = 2 /\ j >= 3 /\ log[2].kind = "error")
           /\ PayloadPhaseOver =>
                /\ KindCount("peak") =
                     (IF own.sweepingType = 0
                      THEN LoopCount(own.DL, PEAK_PAYLOAD_SIZE) ELSE 0)
                /\ KindCount("tspeak") =
                     (IF own.sweepingType = 2
                      THEN LoopCount(own.DL, TSPEAK_PAYLOAD_SIZE) ELSE 0)

\* the second frame of the peak/force program is an error frame of sweep
\* type 2 whose time-stamped peak reads have been made
C12_Witness ==
    /\ prog = "peak" /\ frames = 2 /\ DO # 16
    /\ PayloadPhaseOver /\ AllReadsComplete
    /\ sweep_type = 2 /\ KindCount("tspeak") >= 1


(* ------------------------- C13: arrival order --------------------------- *)
\* the decoder the program applies to the buffer of a normal payload read
DecodeAs(kind, buf) ==
    IF kind = "peak" THEN processPacket_Payload(buf)
    ELSE IF kind = "tspeak" THEN processPacket_tsPayload(buf)
    ELSE IF kind = "spectral_info" THEN processPacket_spectralPayload_info(buf)
    ELSE processPacket_spectralPayload(buf)

\* the records of the current frame stand in the order header, payloads, flag
C13_OrderState ==
    /\ (log = <<>>) => pc \in {"WSAStartup", "socket", "inet_pton", "connect",
                                "return_1", "header"}
    /\ Len(log) >= 1 =>
         /\ log[1].kind = "header"
         /\ log[1].rec = <<processPacket_Header(buffer_header)>>
    /\ \A j \in 1..Len(log) :
         /\ log[j].kind = "header" => j = 1
         /\ log[j].kind = "flag" => j = Len(log) /\ pc \in {"loop", "done"}
         /\ log[j].kind = "error" => j = 2
         /\ log[j].kind = "spectral_info" => j = 2
         /\ log[j].kind = "spectral" => j >= 3 /\ log[2].kind = "spectral_info"
         /\ log[j].kind \in PayloadKinds => j >= 2 /\ Len(log[j].rec) = 1
         /\ log[j].kind \in {"header", "flag"} \/ log[j].kind \in PayloadKinds

\* a step leaves the records alone, starts a frame with its header record,
\* adds the record of the read just made behind the records already there, or
\* drops the records of a frame whose flag has been read
C13_OrderStep ==
    \/ log' = log
    \/ /\ log = <<>> /\ pc = "header"
       /\ Len(log') = 1 /\ log'[1].kind = "header"
    \/ /\ log # <<>>
       /\ Len(log') = Len(log) + 1
       /\ SubSeq(log', 1, Len(log)) = log
       /\ Last(log').kind # "header"
       /\ Last(log').kind \in NormalKinds =>
            Last(log').rec = <<DecodeAs(Last(log').kind, buffer_payload')>>
    \/ /\ log # <<>> /\ log' = <<>>
       /\ pc = "loop" /\ Last(log).kind = "flag"

\* C13: records are produced in arrival order: in every frame the header
\* record comes first, then one payload record per payload read, each decoded
\* from the bytes of its own read and placed behind the earlier ones, then
\* the flag; no record of the next frame appears before the flag read of the
\* current frame has been made.
C13_ArrivalOrder == []C13_OrderState /\ [][C13_OrderStep]_vars

\* a second frame of the peak program with two different peak records and
\* its flag, every read complete
C13_Witness ==
    /\ prog = "peak" /\ frames = 2 /\ pc = "loop"
    /\ AllReadsComplete
    /\ Len(log) = 5
    /\ log[2].kind = "peak" /\ log[3].kind = "peak" /\ log[4].kind = "peak"
    /\ log[5].kind = "flag"
    /\ log[2].rec # log[3].rec


(* ---------------------- C14: end-to-end scenario ------------------------ *)
\* header with counter 1, sweep type 0, trigger mode 0, offset 16, length 8
ScenarioHeader == EncHeader(1, HEADER_SIZE, <<PEAK_PAYLOAD_SIZE, 0>>)

\* peak payload with word0 = 0x00001234 and word1 = 0x3FF00000
ScenarioPayload == LE16(4660) \o LE16(0) \o LE16(0) \o LE16(16368)

\* the frame being received is the scenario's, every read so far complete
C14_Scenario ==
    /\ Len(log) >= 1
    /\ buffer_header = ScenarioHeader
    /\ AllReadsComplete
    /\ Len(log) >= 2 => buffer_payload = ScenarioPayload

C15_IdFields ==
    fx.op = "ids" =>
      /\ fx.sensor \in 0..255
      /\ fx.fiber \in 0..15
      /\ fx.channel \in 0..15
      /\ fx.w0[1] = fx.sensor + 256 * fx.fiber + 4096 * fx.channel
      /\ \A hi \in HighHalves :
           /\ sensor_id(<<fx.w0[1], hi>>) = fx.sensor
           /\ fiber_id(<<fx.w0[1], hi>>) = fx.fiber
           /\ channel_id(<<fx.w0[1], hi>>) = fx.channel

\* the ids of 0xABCD1234 have been extracted
C15_Witness ==
    /\ fx.op = "ids" /\ fx.w0 = <<4660, 43981>>
    /\ fx.sensor = 52 /\ fx.fiber = 2 /\ fx.channel = 1

\* C16: wavelength(w0, w1) does not depend on the low 16 bits of w0: two
\* words with equal upper 16 bits give the same 64-bit pattern for every w1.
C16_WavelengthIgnoresIds == fx.op = "wavelength" => fx.a = fx.b

\* wavelength has been applied to two words with different low halves
C16_Witness ==
    /\ fx.op = "wavelength"
    /\ fx.w0a[1] = 4660 /\ fx.w0b[1] = 65535
    /\ fx.w0a[2] = fx.w0b[2]
    /\ fx.w1 = <<0, 16368>>

\* C17: for every counter in 0..0xFFF, sweep type in 0..2 and trigger mode
\* in 0..1, processPacket_Header of info = counter | sweepType << 12 |
\* triggerMode << 15 recovers the three fields.
C17_HeaderRoundTrip ==
    (fx.op = "header" /\ fx.counter \in 0..4095 /\ fx.sweepType \in 0..2
       /\ fx.trigger \in 0..1) =>
      /\ fx.h.packetCounter = fx.counter
      /\ fx.h.sweepingType = fx.sweepType
      /\ fx.h.triggerMode = fx.trigger

\* the header with counter 0xFFF, sweep type 2 and trigger mode 1 has been
\* decoded
C17_Witness ==
    /\ fx.op = "header"
    /\ fx.counter = 4095 /\ fx.sweepType = 2 /\ fx.trigger = 1
    /\ fx.h.packetCounter = 4095


(* ------------------------ C18: error payloads --------------------------- *)
\* C18: error payload decoding is total: the word at offset 0 is the error
\* id and the word at offset 4 the description; id 500 is a missing peak,
\* 501 multiple peaks, every other 32-bit id an internal error; the sensor,
\* fiber and channel ids reported with the error are those of the
\* description word, never of the error id.
C18_ErrorDecoding ==
    fx.op = "error" =>
      /\ fx.r.type \in {"Missing Peak", "Multiple Peaks", "Internal Error"}
      /\ fx.r.type = "Missing Peak" <=> fx.id = <<500, 0>>
      /\ fx.r.type = "Multiple Peaks" <=> fx.id = <<501, 0>>
      /\ fx.r.type # "Internal Error" =>
           /\ fx.r.sensor = sensor_id(fx.desc)
           /\ fx.r.fiber = fiber_id(fx.desc)
           /\ fx.r.channel = channel_id(fx.desc)
      /\ fx.r.type = "Internal Error" => fx.r = [type |-> "Internal Error"]

\* a missing peak of sensor 0x34, fiber 2, channel 1 has been decoded
C18_Witness ==
    /\ fx.op = "error" /\ fx.id = <<500, 0>> /\ fx.desc = <<4660, 500>>
    /\ fx.r.type = "Missing Peak"
    /\ fx.r.sensor = 52 /\ fx.r.fiber = 2 /\ fx.r.channel = 1


(* ----------------------- C19: calibrationForce -------------------------- *)
\* C19 (as stated): calibrationForce yields a force of exactly 0 whenever the
\* measured wavelength equals the reference wavelength and the reference is
\* not zero.
C19_ZeroForceAtReference ==
    (fx.op = "force" /\ DEq(fx.present, fx.initial) /\ ~DIsZero(fx.initial)) =>
      fx.force.cls = "zero"

\* C19 (amended): calibrationForce yields a force of exactly 0 whenever the
\* measured wavelength equals the reference wavelength and the reference is
\* finite and not zero.
C19_ZeroForceAtFiniteReference ==
    (fx.op = "force" /\ DEq(fx.present, fx.initial)
       /\ ~DIsZero(fx.initial) /\ ~DIsInf(fx.initial)) =>
      fx.force.cls = "zero"

\* calibrationForce has been applied to a measured wavelength that equals
\* the reference 1534.63e-9 of the table
C19_Witness ==
    /\ fx.op = "force"
    /\ fx.initial = SENSOR_1_WAVELENGTH
    /\ fx.present = fx.initial
    /\ fx.force.cls = "zero"


(* -------------------- C20: dataLength as unsigned ----------------------- *)
\* floor(dataLength / element size) of the frame being received
WireElementCount ==
    IF sweep_type = 0 THEN FloorDiv8(WireLength) ELSE FloorDiv12(WireLength)

\* C20: dataLength counts as an unsigned 32-bit quantity: after a complete
\* header with dataOffset = 16 and sweep type 0 or 2, for every dataLength
\* in 0..2^32-1, those of 2^31 and more included, the length the payload
\* loop works with is not negative, the loop goes on while fewer than
\* floor(dataLength / element size) elements have been read, and it has read
\* that many when the payload phase is over.
C20_UnsignedElementCount ==
    (HeaderComplete /\ AllReadsComplete /\ DO = 16 /\ sweep_type \in {0, 2}) =>
        /\ DL >= 0
        /\ Cardinality(PayloadPositions) < WireElementCount => ~PayloadPhaseOver
        /\ PayloadPhaseOver => Cardinality(PayloadPositions) = WireElementCount


(* --------------------- C21: the wavelength pattern ---------------------- *)
\* C21: wavelength(w0, w1) reinterprets the 64-bit pattern whose low 32
\* bits are (w0 & 0xFFFF0000) | 0x7FFF and whose high 32 bits are w1: bits
\* 0-15 are 0x7FFF, bits 16-31 are the upper half of w0, bits 32-63 are w1.
C21_WavelengthPattern ==
    fx.op = "wavelength1" =>
      /\ Len(fx.d) = 8
      /\ U16(fx.d, 0) = 32767
      /\ U16(fx.d, 2) = fx.w0[2]
      /\ U32(fx.d, 4) = fx.w1

\* the wavelength of 0xABCD1234, 0xFFFFABCD has been taken
C21_Witness ==
    /\ fx.op = "wavelength1"
    /\ fx.w0 = <<4660, 43981>> /\ fx.w1 = <<43981, 65535>>
    /\ U32(fx.d, 0) = <<32767, 43981>>


(* --------------------------- C22: unix time ----------------------------- *)
\* a >= b for unsigned 64-bit values
GE64(a, b) ==
    \/ a[4] > b[4]
    \/ a[4] = b[4] /\ a[3] > b[3]
    \/ a[4] = b[4] /\ a[3] = b[3] /\ a[2] > b[2]
    \/ a[4] = b[4] /\ a[3] = b[3] /\ a[2] = b[2] /\ a[1] >= b[1]

\* the integer a - b, sign and magnitude
SignedDiff(a, b) ==
    IF GE64(a, b) THEN [neg |-> FALSE, mag |-> USub64(a, b)]
    ELSE [neg |-> TRUE, mag |-> USub64(b, a)]

\* 2208988800 * 10^9, the time stamp of 1970-01-01 00:00:00
UnixEpochStamp == <<0, 8401, 59292, 7847>>

\* time stamps with the unix time they stand for
KnownTimes ==
    {[ts |-> <<0, 0, 0, 0>>, neg |-> TRUE, mag |-> <<32384, 33706, 0, 0>>],
     [ts |-> <<51711, 15258, 0, 0>>, neg |-> TRUE, mag |-> <<32384, 33706, 0, 0>>],
     [ts |-> <<51712, 15258, 0, 0>>, neg |-> TRUE, mag |-> <<32383, 33706, 0, 0>>],
     [ts |-> <<65535, 8400, 59292, 7847>>, neg |-> TRUE, mag |-> <<1, 0, 0, 0>>],
     [ts |-> <<0, 8401, 59292, 7847>>, neg |-> FALSE, mag |-> <<0, 0, 0, 0>>],
     [ts |-> <<52501, 24150, 33946, 13887>>, neg |-> FALSE, mag |-> <<61696, 25939, 0, 0>>],
     [ts |-> <<0, 0, 0, 32768>>, neg |-> FALSE, mag |-> <<65156, 41494, 1, 0>>],
     [ts |-> <<65535, 65535, 65535, 65535>>, neg |-> FALSE, mag |-> <<31625, 51160, 3, 0>>]}

\* C22: in the spectral program the unix time derived from a 64-bit header
\* time stamp is floor(timestamp / 10^9) - 2208988800 as a signed 64-bit
\* value: negative exactly for the time stamps below 2208988800 * 10^9, with
\* the right magnitude, and never a huge positive number.
C22_UnixTimeSigned ==
    fx.op = "unix_time" =>
      /\ fx.t = SignedDiff(UDiv64(fx.ts), EpochOffset)
      /\ fx.t.neg <=> ~GE64(fx.ts, UnixEpochStamp)
      /\ fx.t.mag[4] = 0 /\ fx.t.mag[3] <= 3
      /\ \A k \in KnownTimes :
           fx.ts = k.ts => fx.t = [neg |-> k.neg, mag |-> k.mag]

\* the unix time of the time stamp 0 has been derived: -2208988800
C22_Witness ==
    /\ fx.op = "unix_time" /\ fx.ts = <<0, 0, 0, 0>>
    /\ fx.t = [neg |-> TRUE, mag |-> EpochOffset]


(* ---------------------- C23: calibration lookups ------------------------ *)
\* C23: in the peak/force program every lookup FBGs_info[channel][fiber]
\* [sensor] made for a decoded peak or time-stamped peak element lies within
\* the table (channel in 0..3, fiber = 0, sensor in 0..1), whatever word0
\* the device sends; stated for frames all of whose reads delivered every
\* byte.
C23_LookupInBounds ==
    (prog = "peak" /\ AllReadsComplete) =>
        \A j \in 1..Len(log) :
            log[j].kind \in {"peak", "tspeak"} =>
                FBGs_info_InBounds(log[j].rec[1].channel, log[j].rec[1].fiber,
                                   log[j].rec[1].sensor)


(* ------------------------ C24: byte accounting -------------------------- *)
\* bytes the first n recv calls of the current frame took from the stream
RECURSIVE BytesConsumed(_)
BytesConsumed(n) ==
    IF n = 0 THEN 0
    ELSE BytesConsumed(n - 1) + (IF log[n].got > 0 THEN log[n].got ELSE 0)

\* C24: for every frame whose header has dataOffset = 16 and sweep type 0, 1
\* or 2, the bytes consumed from the start of the header to the end of the
\* flag are dataOffset + dataLength + 8, so that the next header read starts
\* at the frame boundary; stated for frames all of whose reads delivered
\* every byte and whose dataLength is below 2^16.
C24_ByteAccounting ==
    (FrameOver /\ AllReadsComplete /\ Last(log).kind = "flag"
       /\ DO = 16 /\ sweep_type \in {0, 1, 2} /\ WireLength[2] = 0) =>
        BytesConsumed(Len(log)) = DO + WireLength[1] + FLAG_SIZE

====
